---- MODULE Spec2Model ----
(***************************************************************************)
(* State-machine model of src/ai10_index.py: the module-level set-up, the  *)
(* one-time initialize_index() and the timer callback update(frame).       *)
(*                                                                         *)
(* Floating-point numbers are modelled as exact fractions <<n, d>> in      *)
(* lowest terms with d >= 0; <<0, 0>> is NaN and <<1, 0>>, <<-1, 0>> are   *)
(* the infinities, so that NaN propagation and NaN comparisons behave as   *)
(* in IEEE arithmetic.  Rounding is not modelled.                          *)
(***************************************************************************)
EXTENDS Integers, Sequences, FiniteSets, TLC

(***************************************************************************)
(* Bounds of the model.                                                    *)
(***************************************************************************)
\* The source keeps 300 points (line 12); the model keeps a short history so
\* that the truncation of line 113-114 happens within MaxFrames cycles.
MAX_DATAPOINTS == 2

\* Number of timer ticks explored (FuncAnimation's frame counter is unbounded).
MaxFrames == 3

(***************************************************************************)
(* Program constants.                                                      *)
(***************************************************************************)
INDEX_BASE_VALUE == 1000

\* The basket at module load (line 8 lists ten symbols; three are enough to
\* show a failing ticker, the one after it and one more).
TICKERS0 == <<"A", "B", "C">>

Basket == {TICKERS0[i] : i \in 1..Len(TICKERS0)}

accent_color_green == "#44D400"
accent_color_red == "#FF3B30"
accent_color_neutral == "#AAAAAA"
text_color_primary == "#E0E0E0"

(***************************************************************************)
(* Floats as fractions.                                                    *)
(***************************************************************************)
Abs(x) == IF x < 0 THEN -x ELSE x

Sgn(x) == IF x < 0 THEN -1 ELSE IF x > 0 THEN 1 ELSE 0

RECURSIVE GCD(_, _)
GCD(a, b) == IF b = 0 THEN a ELSE GCD(b, a % b)

Norm(n, d) ==
    IF d = 0 THEN <<Sgn(n), 0>>
    ELSE LET g == GCD(Abs(n), Abs(d))
             s == IF d < 0 THEN -1 ELSE 1
         IN  <<(s * n) \div g, (s * d) \div g>>

F(n) == <<n, 1>>

NaN == <<0, 0>>

IsNaN(a) == a = NaN

IsFinite(a) == a[2] # 0

RAdd(a, b) ==
    IF IsNaN(a) \/ IsNaN(b) THEN NaN
    ELSE IF ~IsFinite(a) THEN (IF ~IsFinite(b) /\ b # a THEN NaN ELSE a)
    ELSE IF ~IsFinite(b) THEN b
    ELSE Norm(a[1] * b[2] + b[1] * a[2], a[2] * b[2])

RNeg(a) == <<-a[1], a[2]>>

RSub(a, b) == RAdd(a, RNeg(b))

RMul(a, b) == Norm(a[1] * b[1], a[2] * b[2])

\* numpy float division: a zero divisor gives inf or nan, never an exception
RDiv(a, b) == RMul(a, Norm(b[2], b[1]))

RLt(a, b) == ~IsNaN(a) /\ ~IsNaN(b) /\ a # b /\ a[1] * b[2] < b[1] * a[2]

RGt(a, b) == RLt(b, a)

RGe(a, b) == ~IsNaN(a) /\ ~IsNaN(b) /\ (a = b \/ RLt(b, a))

(***************************************************************************)
(* Sequence and dictionary helpers.                                        *)
(***************************************************************************)
Range(s) == {s[i] : i \in 1..Len(s)}

\* list.remove(x): delete the first occurrence of x
RECURSIVE Remove(_, _)
Remove(s, x) ==
    IF s = <<>> THEN <<>>
    ELSE IF Head(s) = x THEN Tail(s)
    ELSE <<Head(s)>> \o Remove(Tail(s), x)

\* dict.get(key, default)
Get(d, k, default) == IF k \in DOMAIN d THEN d[k] ELSE default

\* d[k] = v
Put(d, k, v) == [x \in DOMAIN d \cup {k} |-> IF x = k THEN v ELSE d[x]]

EmptyDict == [x \in {} |-> 0]

\* s[-n:]
LastN(s, n) == IF Len(s) <= n THEN s ELSE SubSeq(s, Len(s) - n + 1, Len(s))

Max2(a, b) == IF a > b THEN a ELSE b

VARIABLES
    state,              \* "UNINITIALIZED", "RUNNING" or "HALTED" (lines 144-154)
    TICKERS,            \* the basket, a list (line 8)
    shares_outstanding, \* data_store['shares_outstanding']
    prev_close,         \* data_store['prev_close']
    last_price,         \* data_store['last_price']
    base_market_cap,    \* data_store['base_market_cap']
    text_artists,       \* data_store['text_artists']
    index_values,       \* line 22
    timestamps,         \* line 23
    chart,              \* the line artist and the axes limits (lines 76, 116-121)
    hist_rows,          \* len(hist_data) seen by initialize_index, -1 before it ran
    excluded,           \* tickers for which line 54-55 ran
    frame,              \* number of timer ticks so far
    points_total,       \* number of points appended so far (lines 111-112)
    fetch_log,          \* downloads made by the latest update and their answers
    latest_prices,      \* the price series of the latest update (line 106)
    current_total_cap,  \* line 108 of the latest update, <<>> when not computed
    outcome             \* how the latest update ended

vars == <<state, TICKERS, shares_outstanding, prev_close, last_price,
          base_market_cap, text_artists, index_values, timestamps, chart,
          hist_rows, excluded, frame, points_total, fetch_log, latest_prices,
          current_total_cap, outcome>>

storeVars == <<shares_outstanding, prev_close, base_market_cap, TICKERS>>

(***************************************************************************)
(* What the data provider may answer.                                      *)
(***************************************************************************)
\* numbers of daily bars the bulk download may return (none, one, three)
RowCounts == {0, 1, 3}

\* closes of the second-to-last daily bar
ClosePatterns == { ("A" :> 100) @@ ("B" :> 200) @@ ("C" :> 100) }

\* The 5-day daily download of line 32: rows bars, one Close column per ticker
\* of cols.  The second-to-last bar closes at pc[t], the bars around it 10
\* lower and 10 higher.
MkHist(rows, cols, pc) ==
    [rows  |-> rows,
     Close |-> [t \in cols |-> [i \in 1..rows |-> F(pc[t] + 10 * (i - (rows - 1)))]]]

HistFrames ==
    {MkHist(rows, cols, pc) : rows \in RowCounts, cols \in SUBSET Basket,
                              pc \in ClosePatterns}

\* stock.info of one ticker: a dictionary that may lack any of its keys
InfoSet ==
    { ("sharesOutstanding" :> 10),
      ("sharesOutstanding" :> 5),
      ("marketCap" :> 1000) @@ ("previousClose" :> 100),
      ("marketCap" :> 1000) @@ ("previousClose" :> 0) }

\* The latest Close row of a live download, as the provider may quote it for
\* the whole basket; a ticker without a column is missing from the frame and a
\* ticker without a trade in the latest bar is quoted NaN.
LiveCloses ==
    { ("A" :> F(100)) @@ ("B" :> F(200)) @@ ("C" :> F(100)),
      ("A" :> F(110)) @@ ("B" :> F(200)) @@ ("C" :> F(100)),
      ("A" :> NaN)    @@ ("B" :> F(200)) @@ ("C" :> F(100)),
      ("A" :> F(100)) @@ ("B" :> F(100)) @@ ("C" :> F(200)),
      ("C" :> F(110)) }

Restrict(f, S) == [x \in DOMAIN f \cap S |-> f[x]]

\* A download of lines 96/102 for the tickers of list: it raises, or returns
\* an empty frame, or a frame whose last Close row prices at least one ticker
\* of the list.
FetchRaises == [raises |-> TRUE, empty |-> TRUE, Close |-> EmptyDict]

FetchEmpty == [raises |-> FALSE, empty |-> TRUE, Close |-> EmptyDict]

Downloads(list) ==
    {FetchRaises, FetchEmpty} \cup
    {[raises |-> FALSE, empty |-> FALSE, Close |-> Restrict(c, Range(list))] :
        c \in {q \in LiveCloses : DOMAIN q \cap Range(list) # {}}}

(***************************************************************************)
(* initialize_index, lines 25-60.                                          *)
(***************************************************************************)
\* Lines 38-44 for one ticker: the shares and the previous close, or a raise.
InitTicker(ticker, hist, info) ==
    LET so       == Get(info, "sharesOutstanding", 0)
        estimate == so = 0                              \* "if not shares"
        mc       == Get(info, "marketCap", 0)
        pc       == Get(info, "previousClose", 1)
    IN  IF estimate /\ pc = 0
        THEN [ok |-> FALSE, error |-> "ZeroDivisionError"]
        ELSE IF ticker \notin DOMAIN hist.Close
        THEN [ok |-> FALSE, error |-> "KeyError"]
        ELSE IF hist.rows < 2
        THEN [ok |-> FALSE, error |-> "IndexError"]
        ELSE [ok     |-> TRUE,
              shares |-> IF estimate THEN Norm(mc, pc) ELSE F(so),
              prev   |-> hist.Close[ticker][hist.rows - 1]]       \* .iloc[-2]

\* The for loop of lines 36-55.  A Python list iterator keeps an index into
\* the list: after TICKERS.remove(ticker) the next iteration still advances the
\* index by one.  st holds the list, the three dictionaries, the running total
\* and the tickers reported as excluded.
RECURSIVE InitLoop(_, _, _, _)
InitLoop(i, st, hist, info) ==
    IF i > Len(st.TICKERS) THEN st
    ELSE LET ticker == st.TICKERS[i]
             r      == InitTicker(ticker, hist, info[ticker])
         IN  IF r.ok
             THEN InitLoop(i + 1,
                    [st EXCEPT !.shares = Put(@, ticker, r.shares),
                               !.prev   = Put(@, ticker, r.prev),
                               !.last   = Put(@, ticker, r.prev),
                               !.total  = RAdd(@, RMul(r.shares, r.prev))],
                    hist, info)
             ELSE InitLoop(i + 1,
                    [st EXCEPT !.TICKERS  = Remove(@, ticker),
                               !.excluded = @ \cup {ticker}],
                    hist, info)

\* StartState without the zero check of line 58
StartStateUnchecked(total) == "RUNNING"

\* Lines 58-59 and 144-154: a zero base cap raises and the program stops
StartState(total) == IF total = F(0) THEN "HALTED" ELSE "RUNNING"

\* initialize_index() with the try/except of lines 144-154 around it
initialize_index(hist, info) ==
    /\ state = "UNINITIALIZED"
    /\ hist_rows' = hist.rows
    /\ UNCHANGED <<text_artists, index_values, timestamps, chart, frame,
                   points_total, fetch_log, latest_prices, current_total_cap,
                   outcome>>
    /\ IF hist.rows < 2                                   \* line 33
       THEN /\ state' = "HALTED"
            /\ UNCHANGED <<TICKERS, shares_outstanding, prev_close, last_price,
                           base_market_cap, excluded>>
       ELSE LET st == InitLoop(1, [TICKERS  |-> TICKERS,
                                   shares   |-> shares_outstanding,
                                   prev     |-> prev_close,
                                   last     |-> last_price,
                                   total    |-> F(0),
                                   excluded |-> {}], hist, info)
            IN  /\ TICKERS' = st.TICKERS
                /\ shares_outstanding' = st.shares
                /\ prev_close' = st.prev
                /\ last_price' = st.last
                /\ excluded' = st.excluded
                /\ base_market_cap' = st.total                          \* line 57
                /\ state' = StartState(st.total)

Initialize ==
    \E hist \in HistFrames, info \in [Basket -> InfoSet] : initialize_index(hist, info)

(***************************************************************************)
(* The state once the module-level statements of lines 8-87 have run: the  *)
(* empty data store and history, the empty plot line, and one sidebar      *)
(* entry per ticker of the basket as it is at that point.                  *)
(***************************************************************************)
NewArtist(ticker) ==
    [label       |-> ticker,
     price_text  |-> <<>>, price_color |-> text_color_primary,
     pct_text    |-> <<>>, pct_color   |-> text_color_primary]

Init ==
    /\ state = "UNINITIALIZED"
    /\ TICKERS = TICKERS0
    /\ shares_outstanding = EmptyDict
    /\ prev_close = EmptyDict
    /\ last_price = EmptyDict
    /\ base_market_cap = F(0)
    /\ text_artists = [t \in Range(TICKERS0) |-> NewArtist(t)]
    /\ index_values = <<>>
    /\ timestamps = <<>>
    /\ chart = [line |-> <<>>, xlim |-> <<>>, ylim |-> <<>>]
    /\ hist_rows = -1
    /\ excluded = {}
    /\ frame = 0
    /\ points_total = 0
    /\ fetch_log = <<>>
    /\ latest_prices = EmptyDict
    /\ current_total_cap = <<>>
    /\ outcome = "none"

(***************************************************************************)
(* update(frame), lines 90-141.                                            *)
(***************************************************************************)
\* Line 108: sum(shares_outstanding[t] * latest_prices[t] for t in TICKERS
\* if t in latest_prices), from the integer 0; a ticker that is priced but has
\* no shares entry raises KeyError.
\* CapSum reading the shares with a default of one share instead of failing
RECURSIVE CapSumDefault(_, _, _, _, _)
CapSumDefault(i, list, shares, prices, acc) ==
    IF i > Len(list) THEN [ok |-> TRUE, value |-> acc]
    ELSE IF list[i] \notin DOMAIN prices
    THEN CapSumDefault(i + 1, list, shares, prices, acc)
    ELSE CapSumDefault(i + 1, list, shares, prices,
                       RAdd(acc, RMul(Get(shares, list[i], F(1)), prices[list[i]])))

RECURSIVE CapSum(_, _, _, _, _)
CapSum(i, list, shares, prices, acc) ==
    IF i > Len(list) THEN [ok |-> TRUE, value |-> acc]
    ELSE IF list[i] \notin DOMAIN prices
    THEN CapSum(i + 1, list, shares, prices, acc)
    ELSE IF list[i] \notin DOMAIN shares
    THEN [ok |-> FALSE, value |-> acc]
    ELSE CapSum(i + 1, list, shares, prices,
                RAdd(acc, RMul(shares[list[i]], prices[list[i]])))

\* IndexValue with the quotient inverted
IndexValueInverted(cap, base) == RMul(F(INDEX_BASE_VALUE), RDiv(base, cap))

\* Line 109
IndexValue(cap, base) == RMul(F(INDEX_BASE_VALUE), RDiv(cap, base))

\* datetime.now().strftime("%H:%M:%S") of the tick: ticks are 15 s apart
\* (UPDATE_INTERVAL_MS), the clock wraps at midnight
strftime(tick) ==
    LET secs == tick * 15
    IN  <<(secs \div 3600) % 24, (secs \div 60) % 60, secs % 60>>

\* Python's min() and max() over a list: the first element, replaced by a
\* later one only when that one compares smaller (larger)
RECURSIVE PyMin(_, _, _)
PyMin(s, i, best) ==
    IF i > Len(s) THEN best
    ELSE PyMin(s, i + 1, IF RLt(s[i], best) THEN s[i] ELSE best)

RECURSIVE PyMax(_, _, _)
PyMax(s, i, best) ==
    IF i > Len(s) THEN best
    ELSE PyMax(s, i + 1, IF RGt(s[i], best) THEN s[i] ELSE best)

\* Lines 116-121: the plot line, the x limits and, with more than one point,
\* the y limits; ax.set_ylim raises ValueError for a NaN or infinite limit.
Redraw(ch, values) ==
    LET drawn   == [ch EXCEPT !.line = values,
                              !.xlim = <<0, Max2(Len(values) - 1, 1)>>]
        min_val == PyMin(values, 2, values[1])
        max_val == PyMax(values, 2, values[1])
        padding == RAdd(RMul(RSub(max_val, min_val), Norm(1, 10)), Norm(1, 100))
        lo      == RSub(min_val, padding)
        hi      == RAdd(max_val, padding)
    IN  IF Len(values) <= 1 THEN [ok |-> TRUE, chart |-> drawn]
        ELSE IF ~IsFinite(lo) \/ ~IsFinite(hi) THEN [ok |-> FALSE, chart |-> drawn]
        ELSE [ok |-> TRUE, chart |-> [drawn EXCEPT !.ylim = <<lo, hi>>]]

\* Line 127
DailyChangePct(price, prev) == RMul(RDiv(RSub(price, prev), prev), F(100))

\* Line 128
DailyColor(pct) == IF RGe(pct, F(0)) THEN accent_color_green ELSE accent_color_red

\* TickColor with an unchanged price shown as a rise
TickColorTiesGreen(price, last) ==
    IF RGe(price, last) THEN accent_color_green
    ELSE IF RLt(price, last) THEN accent_color_red
    ELSE accent_color_neutral

\* Lines 130-132
TickColor(price, last) ==
    IF RGt(price, last) THEN accent_color_green
    ELSE IF RLt(price, last) THEN accent_color_red
    ELSE accent_color_neutral

\* The ".2f" of lines 135-136: two decimals, nan and inf unchanged
Fmt2(x) ==
    IF ~IsFinite(x) THEN x
    ELSE Norm((200 * x[1] + x[2]) \div (2 * x[2]), 100)

\* StoreLast writing the previous close instead of the last price
StorePrev(sb, ticker, price) == [sb EXCEPT !.prev[ticker] = price]

\* Line 138
StoreLast(sb, ticker, price) == [sb EXCEPT !.last[ticker] = price]

\* The loop of lines 124-138 from position i on; sb holds prev_close,
\* last_price and text_artists.  A missing dictionary entry raises KeyError
\* and leaves what the earlier iterations stored.
RECURSIVE Sidebar(_, _, _, _)
Sidebar(i, list, prices, sb) ==
    IF i > Len(list) THEN [ok |-> TRUE, sb |-> sb]
    ELSE LET ticker == list[i]
         IN  IF ticker \notin DOMAIN prices
             THEN Sidebar(i + 1, list, prices, sb)
             ELSE IF \/ ticker \notin DOMAIN sb.prev
                     \/ ticker \notin DOMAIN sb.last
                     \/ ticker \notin DOMAIN sb.artists
             THEN [ok |-> FALSE, sb |-> sb]
             ELSE LET price == prices[ticker]
                      pct   == DailyChangePct(price, sb.prev[ticker])
                      art   == [sb.artists[ticker] EXCEPT
                                   !.price_text  = <<Fmt2(price)>>,
                                   !.price_color = TickColor(price, sb.last[ticker]),
                                   !.pct_text    = <<Fmt2(pct)>>,
                                   !.pct_color   = DailyColor(pct)]
                  IN  Sidebar(i + 1, list, prices,
                              StoreLast([sb EXCEPT !.artists[ticker] = art],
                                        ticker, price))

\* Append2 keeping the oldest MAX_DATAPOINTS entries (s[:MAX_DATAPOINTS])
Append2KeepOldest(s, x) ==
    LET grown == Append(s, x)
    IN  IF Len(grown) > MAX_DATAPOINTS THEN SubSeq(grown, 1, MAX_DATAPOINTS) ELSE grown

\* Lines 111-114: append, then keep the newest MAX_DATAPOINTS entries
Append2(s, x) ==
    LET grown == Append(s, x)
    IN  IF Len(grown) > MAX_DATAPOINTS THEN LastN(grown, MAX_DATAPOINTS) ELSE grown

\* NeedsFallback without the empty check of line 97
NeedsFallbackOnRaise(intraday) == intraday.raises

\* Lines 94-102: the daily download is made when the intraday one raised or
\* came back empty
NeedsFallback(intraday) == intraday.raises \/ intraday.empty

Answer(download) ==
    IF download.raises THEN "raise" ELSE IF download.empty THEN "empty" ELSE "data"

\* One timer tick.  intraday and daily are what the two downloads answer;
\* daily is only asked for when the fallback is taken.
update(intraday, daily) ==
    LET fallback == NeedsFallback(intraday)
        live     == IF fallback THEN daily ELSE intraday
        prices   == live.Close                                      \* line 106
        cap      == CapSum(1, TICKERS, shares_outstanding, prices, F(0))
        value    == IndexValue(cap.value, base_market_cap)
        values   == Append2(index_values, value)
        stamps   == Append2(timestamps, strftime(frame))
        drawn    == Redraw(chart, values)
        side     == Sidebar(1, TICKERS, prices,
                            [prev |-> prev_close, last |-> last_price,
                             artists |-> text_artists])
    IN  /\ state = "RUNNING"
        /\ frame < MaxFrames
        /\ frame' = frame + 1
        /\ fetch_log' = IF fallback
                        THEN <<[interval |-> "1m", answer |-> Answer(intraday)],
                               [interval |-> "1d", answer |-> Answer(daily)]>>
                        ELSE <<[interval |-> "1m", answer |-> Answer(intraday)]>>
        /\ UNCHANGED <<state, TICKERS, shares_outstanding, base_market_cap,
                       hist_rows, excluded>>
        /\ IF live.raises                    \* raised inside the handler of line 99
           THEN /\ outcome' = "FetchError"
                /\ latest_prices' = EmptyDict
                /\ current_total_cap' = <<>>
                /\ UNCHANGED <<index_values, timestamps, points_total, chart,
                               prev_close, last_price, text_artists>>
           ELSE IF live.empty                                        \* line 104
           THEN /\ outcome' = "skipped"
                /\ latest_prices' = EmptyDict
                /\ current_total_cap' = <<>>
                /\ UNCHANGED <<index_values, timestamps, points_total, chart,
                               prev_close, last_price, text_artists>>
           ELSE IF ~cap.ok                                           \* line 108
           THEN /\ outcome' = "KeyError"
                /\ latest_prices' = prices
                /\ current_total_cap' = <<>>
                /\ UNCHANGED <<index_values, timestamps, points_total, chart,
                               prev_close, last_price, text_artists>>
           ELSE /\ latest_prices' = prices
                /\ current_total_cap' = <<cap.value>>
                /\ index_values' = values
                /\ timestamps' = stamps
                /\ points_total' = points_total + 1
                /\ chart' = drawn.chart
                /\ IF ~drawn.ok                                      \* line 121
                   THEN /\ outcome' = "ValueError"
                        /\ UNCHANGED <<prev_close, last_price, text_artists>>
                   ELSE /\ outcome' = IF side.ok THEN "ok" ELSE "KeyError"
                        /\ prev_close' = side.sb.prev
                        /\ last_price' = side.sb.last
                        /\ text_artists' = side.sb.artists

Update ==
    \E intraday \in Downloads(TICKERS) :
        \E daily \in IF NeedsFallback(intraday)
                     THEN Downloads(TICKERS) ELSE {FetchEmpty} :
            update(intraday, daily)

Next == Initialize \/ Update

Spec == Init /\ [][Next]_vars

(***************************************************************************)
(* Properties.                                                             *)
(***************************************************************************)
\* tickers for which lines 46-50 ran
Initialized == DOMAIN shares_outstanding

\* tickers of the original basket that the loop of line 36 never visited
NeverProcessed == Basket \ (Initialized \cup excluded)

\* sum over the tickers of S of sh[t] * px[t]
RECURSIVE SumCaps(_, _, _)
SumCaps(S, sh, px) ==
    IF S = {} THEN F(0)
    ELSE LET t == CHOOSE x \in S : TRUE
         IN  RAdd(RMul(sh[t], px[t]), SumCaps(S \ {t}, sh, px))

\* an update has just run
Ticked == frame' = frame + 1

LastOf(s) == s[Len(s)]

Raised == {"FetchError", "KeyError", "ValueError"}

\* C1: whenever an update cycle ends in a caught exception, index_values,
\* timestamps and every stored last price are what they were before the cycle.
C1_ExceptionPreservesState ==
    [][Ticked /\ outcome' \in Raised
         => UNCHANGED <<index_values, timestamps, last_price>>]_vars

\* C2: once the program is RUNNING, the tickers with a sidebar entry are
\* exactly the tickers of the basket that survived initialization.
C2_SidebarMatchesBasket ==
    state = "RUNNING" => DOMAIN text_artists = Range(TICKERS)

\* C3: the base market cap is the sum of shares * prevClose over the tickers
\* that were initialized, none of which was dropped, and every total cap an
\* update computes is the sum of shares * price over the initialized tickers
\* that the fetched prices contain: a dropped or never-processed ticker
\* contributes to neither.
C3_DroppedNeverContributes ==
    /\ state # "UNINITIALIZED" =>
          /\ Initialized \cap excluded = {}
          /\ base_market_cap = SumCaps(Initialized, shares_outstanding, prev_close)
    /\ current_total_cap # <<>> =>
          current_total_cap[1] =
              SumCaps(Initialized \cap DOMAIN latest_prices,
                      shares_outstanding, latest_prices)

\* C3 witness: a running program with a dropped ticker and a never-processed
\* one whose latest update priced a ticker and computed the total cap.
C3_Witness ==
    /\ state = "RUNNING"
    /\ excluded # {}
    /\ NeverProcessed # {}
    /\ current_total_cap # <<>>
    /\ DOMAIN latest_prices # {}

\* the index value that BASE_VALUE * cap / base denotes
ExpectedIndex(cap, base) ==
    Norm(INDEX_BASE_VALUE * cap[1] * base[2], cap[2] * base[1])

\* C4: the two history sequences always have the same length, at most
\* MAX_DATAPOINTS; an update that appends to a history shorter than that
\* extends both by the new entry, and one that appends to a full history
\* yields the old history without its first entry followed by the new entry.
C4_HistoryFifo ==
    /\ [](/\ Len(index_values) = Len(timestamps)
          /\ Len(index_values) <= MAX_DATAPOINTS)
    /\ [][points_total' = points_total + 1 =>
            LET value == ExpectedIndex(current_total_cap'[1], base_market_cap)
                stamp == strftime(frame)
            IN  IF Len(index_values) = MAX_DATAPOINTS
                THEN /\ index_values' = Append(Tail(index_values), value)
                     /\ timestamps' = Append(Tail(timestamps), stamp)
                ELSE /\ index_values' = Append(index_values, value)
                     /\ timestamps' = Append(timestamps, stamp)]_vars

\* C4 witness: more points were appended than the history holds.
C4_Witness ==
    /\ points_total > MAX_DATAPOINTS
    /\ Len(index_values) = MAX_DATAPOINTS

\* C5: an update whose intraday download raised or was empty made the daily
\* download too, and an update whose daily download was empty gave up without
\* touching the history, the last prices, the chart or the sidebar.
C5_FallbackThenSkip ==
    /\ [](fetch_log # <<>> =>
            /\ fetch_log[1].interval = "1m"
            /\ fetch_log[1].answer \in {"raise", "empty"} =>
                  Len(fetch_log) = 2 /\ fetch_log[2].interval = "1d")
    /\ [][Ticked /\ Len(fetch_log') = 2 /\ fetch_log'[2].answer = "empty" =>
            /\ outcome' = "skipped"
            /\ UNCHANGED <<index_values, timestamps, last_price, chart,
                           text_artists>>]_vars

\* C5 witness: both downloads of an update came back empty after the history
\* and the sidebar had been filled.
C5_Witness ==
    /\ Len(fetch_log) = 2
    /\ fetch_log[1].answer = "empty"
    /\ fetch_log[2].answer = "empty"
    /\ index_values # <<>>
    /\ last_price # prev_close

\* the state of the example of the specification: basket [A, B], shares
\* {A:10, B:5}, previous closes {A:100, B:200}, live prices A=110, B=200
ExampleTick ==
    /\ shares_outstanding = ("A" :> F(10)) @@ ("B" :> F(5))
    /\ prev_close = ("A" :> F(100)) @@ ("B" :> F(200))
    /\ latest_prices = ("A" :> F(110)) @@ ("B" :> F(200))

\* C6: the value an update appends is BASE_VALUE * current_total_cap /
\* base_market_cap; it is BASE_VALUE when the two caps are equal, and 1050 in
\* the example.
C6_IndexFormula ==
    current_total_cap # <<>> =>
        /\ LastOf(index_values) = ExpectedIndex(current_total_cap[1], base_market_cap)
        /\ current_total_cap[1] = base_market_cap =>
              LastOf(index_values) = F(INDEX_BASE_VALUE)
        /\ ExampleTick => LastOf(index_values) = F(1050)

\* C6 witness: an update has appended a value in the example state.
C6_Witness == ExampleTick /\ current_total_cap # <<>> /\ index_values # <<>>

\* (price - prev) / prev * 100 >= 0, from the numerators and denominators
PctNonNegative(price, prev) ==
    /\ ~IsNaN(price)
    /\ (price[1] * prev[2] - prev[1] * price[2]) * prev[1] * 100 >= 0

\* C7: an update that reaches the sidebar colours, for every fetched ticker,
\* the percent label green iff the daily change is >= 0 and red otherwise, and
\* the price green, red or neutral as the price is above, below or equal to the
\* last price stored before the update, and then stores the price; the last
\* price of every other ticker, and of every ticker in an update that does not
\* reach the sidebar, stays, and it starts as the previous close.
C7_Colours ==
    [][/\ state = "UNINITIALIZED" /\ state' = "RUNNING" => last_price' = prev_close'
       /\ Ticked /\ outcome' # "ok" => last_price' = last_price
       /\ Ticked /\ outcome' = "ok" =>
            \A t \in DOMAIN last_price :
                IF t \in DOMAIN latest_prices'
                THEN LET price == latest_prices'[t]
                         art   == text_artists'[t]
                     IN  /\ art.pct_color =
                               IF PctNonNegative(price, prev_close[t])
                               THEN accent_color_green ELSE accent_color_red
                         /\ RGt(price, last_price[t]) => art.price_color = accent_color_green
                         /\ RLt(price, last_price[t]) => art.price_color = accent_color_red
                         /\ price = last_price[t] => art.price_color = accent_color_neutral
                         /\ last_price'[t] = price
                ELSE /\ last_price'[t] = last_price[t]
                     /\ text_artists'[t] = text_artists[t]]_vars

\* C7 witness: the sidebar shows a ticker whose price fell since the last tick
\* (red) while it is not below the previous close (green).
C7_Witness ==
    /\ outcome = "ok"
    /\ \E t \in DOMAIN latest_prices :
          /\ text_artists[t].price_color = accent_color_red
          /\ text_artists[t].pct_color = accent_color_green

\* C8: the program is RUNNING only after an initialization that saw at least
\* two rows and found a nonzero base cap; otherwise it halts; no update runs
\* outside RUNNING, and the only state changes are those out of UNINITIALIZED.
C8_RunningOnlyAfterInit ==
    /\ [](/\ state = "RUNNING" => hist_rows >= 2 /\ base_market_cap # F(0)
          /\ state = "UNINITIALIZED" => hist_rows = -1
          /\ hist_rows \in {0, 1} => state = "HALTED"
          /\ hist_rows >= 2 /\ base_market_cap = F(0) => state = "HALTED"
          /\ state # "RUNNING" =>
                frame = 0 /\ outcome = "none" /\ index_values = <<>>)
    /\ [][/\ state' # state => state = "UNINITIALIZED"
          /\ Ticked => state = "RUNNING"]_vars

\* C8 witness: the program halted on a zero base cap after a download of
\* enough rows.
C8_Witness ==
    state = "HALTED" /\ hist_rows >= 2 /\ base_market_cap = F(0) /\ excluded # {}

\* C9: no update changes the base market cap, the shares, the previous closes
\* or the basket.
C9_UpdateFrame ==
    [][state = "RUNNING" => UNCHANGED storeVars]_vars

\* C9 witness: an update has appended a point and stored a new last price.
C9_Witness ==
    /\ outcome = "ok"
    /\ index_values # <<>>
    /\ last_price # prev_close

\* C10: after initialization every ticker of the original basket was either
\* initialized or dropped, the basket is the original one without the dropped
\* tickers, every ticker still in it has its three entries and the base market
\* cap is the sum of shares * prevClose over the basket.
C10_EveryTickerProcessed ==
    state = "RUNNING" =>
        /\ Initialized \cup excluded = Basket
        /\ Range(TICKERS) = Basket \ excluded
        /\ \A t \in Range(TICKERS) :
              /\ t \in DOMAIN shares_outstanding
              /\ t \in DOMAIN prev_close
              /\ t \in DOMAIN last_price
        /\ Range(TICKERS) \subseteq Initialized =>
              base_market_cap = SumCaps(Range(TICKERS), shares_outstanding, prev_close)

====
